---- MODULE Spec2Model ----
(***************************************************************************)
(* A model of stirling-pdf-client: the status-aware transport wrapper      *)
(* (ProxyClient), the capability gate (requires_server_version), the       *)
(* version comparator (compare_versions), the response materializer        *)
(* (save_file, get_filename) and the operation modules that send requests  *)
(* through the wrapper.                                                    *)
(*                                                                         *)
(* Python strings are TLA+ strings; the character at position i of s is    *)
(* SubSeq(s, i, i).  Python's None is the value None below, a string that  *)
(* none of the modelled inputs equals.                                     *)
(*                                                                         *)
(* Seven specifications share the variables:                                *)
(*   Spec     one caller; construction, requests, the info operations      *)
(*   SpecOps  one caller; the operations that upload files and save        *)
(*   SpecMT   several threads sharing one wrapper                          *)
(*   SpecCmp  compare_versions applied to pairs of version strings         *)
(*   SpecName get_filename applied to Content-Disposition headers          *)
(*   SpecSave save_file applied to responses and output paths              *)
(*   SpecMod  the facade StirlingPDFClient and its six modules             *)
(***************************************************************************)
EXTENDS Integers, Sequences, FiniteSets, TLC

VARIABLES
    constructed,    \* a ProxyClient instance exists (its __init__ returned)
    version,        \* ProxyClient.version
    server_status,  \* ProxyClient.server_status
    nreq,           \* HTTP requests handed to the underlying transport so far
    calls,          \* calls made by the caller so far (bounds the run)
    last,           \* what the last call did (the observation of one call)
    open_handles,   \* file handles opened by operation methods and not closed
    disk,           \* the regular files of the output area: path -> bytes
    pc,             \* SpecMT: where each thread is in ProxyClient.request
    inflight,       \* SpecMT: the response each thread is handling
    observed,       \* SpecMT: the (version, server_status) pair a reader saw
    pairs,          \* SpecMT: the pairs of construction and of status responses
    compared,       \* SpecCmp: two version strings and what comparing them gave
    named,          \* SpecName: a header and the filename derived from it
    saved,          \* SpecSave: the last call of save_file and what it did
    clients,        \* SpecMod: the ProxyClient instances made, in order
    facade          \* SpecMod: the StirlingPDFClient: base_url, the instance each module holds

vars ==
    <<constructed, version, server_status, nreq, calls, last, open_handles,
      disk, pc, inflight, observed, pairs, compared, named, saved, clients,
      facade>>

(***************************************************************************)
(* Bounds of the model.                                                    *)
(***************************************************************************)
MaxCalls == 3

(***************************************************************************)
(* Strings.                                                                *)
(***************************************************************************)
None == "<None>"

At(s, i) == SubSeq(s, i, i)

Digits == {"0", "1", "2", "3", "4", "5", "6", "7", "8", "9"}

DigitVal(c) ==
    CASE c = "0" -> 0 [] c = "1" -> 1 [] c = "2" -> 2 [] c = "3" -> 3
      [] c = "4" -> 4 [] c = "5" -> 5 [] c = "6" -> 6 [] c = "7" -> 7
      [] c = "8" -> 8 [] c = "9" -> 9

\* int(part) for a run of decimal digits
RECURSIVE ParseInt(_)
ParseInt(run) ==
    IF Len(run) = 0 THEN 0
    ELSE 10 * ParseInt(SubSeq(run, 1, Len(run) - 1)) + DigitVal(At(run, Len(run)))

\* the end (exclusive) of the maximal digit run of s that starts at i
RECURSIVE RunEnd(_, _)
RunEnd(s, i) ==
    IF i <= Len(s) /\ At(s, i) \in Digits THEN RunEnd(s, i + 1) ELSE i

\* re.findall(r"\d+", s) from position i on: the maximal digit runs, in order
RECURSIVE FindDigitRuns(_, _)
FindDigitRuns(s, i) ==
    IF i > Len(s) THEN <<>>
    ELSE IF At(s, i) \in Digits
         THEN <<SubSeq(s, i, RunEnd(s, i) - 1)>> \o FindDigitRuns(s, RunEnd(s, i))
         ELSE FindDigitRuns(s, i + 1)

\* [int(part) for part in re.findall(r"\d+", version)]
VersionParts(s) ==
    LET runs == FindDigitRuns(s, 1)
    IN  [k \in 1..Len(runs) |-> ParseInt(runs[k])]

Max(a, b) == IF a >= b THEN a ELSE b

Min(a, b) == IF a <= b THEN a ELSE b

\* a loop over zip(v1_parts, v2_parts): it stops at the shorter list
RECURSIVE ComparePartsFrom_Zip(_, _, _)
ComparePartsFrom_Zip(p1, p2, i) ==
    IF i > Min(Len(p1), Len(p2)) THEN 0
    ELSE IF p1[i] < p2[i] THEN -1
    ELSE IF p1[i] > p2[i] THEN 1
    ELSE ComparePartsFrom_Zip(p1, p2, i + 1)

\* a loop whose second branch is a plain else: equal parts count as greater
RECURSIVE ComparePartsFrom_ElseGreater(_, _, _)
ComparePartsFrom_ElseGreater(p1, p2, i) ==
    IF i > Max(Len(p1), Len(p2)) THEN 0
    ELSE LET v1 == IF i <= Len(p1) THEN p1[i] ELSE 0
             v2 == IF i <= Len(p2) THEN p2[i] ELSE 0
         IN  IF v1 < v2 THEN -1 ELSE 1

\* the for loop of compare_versions from index i (1-based) on
RECURSIVE ComparePartsFrom(_, _, _)
ComparePartsFrom(p1, p2, i) ==
    IF i > Max(Len(p1), Len(p2)) THEN 0
    ELSE LET v1 == IF i <= Len(p1) THEN p1[i] ELSE 0
             v2 == IF i <= Len(p2) THEN p2[i] ELSE 0
         IN  IF v1 < v2 THEN -1
             ELSE IF v1 > v2 THEN 1
             ELSE ComparePartsFrom(p1, p2, i + 1)

\* the try block of compare_versions: re.findall raises TypeError on None
CompareTry(version1, version2) ==
    IF version1 = None \/ version2 = None
    THEN [raised |-> TRUE, value |-> 0]
    ELSE [raised |-> FALSE,
          value |-> ComparePartsFrom(VersionParts(version1),
                                     VersionParts(version2), 1)]

\* one call of compare_versions as its caller sees it: the except clause
\* turns every exception into the return value 0
CompareCall(version1, version2) ==
    LET t == CompareTry(version1, version2)
    IN  IF t.raised THEN [raised |-> FALSE, value |-> 0] ELSE t

\* the value compare_versions returns
compare_versions(version1, version2) == CompareCall(version1, version2).value

(***************************************************************************)
(* Values on the wire.                                                     *)
(***************************************************************************)
StatusUrl == "/api/v1/info/status"
UptimeUrl == "/api/v1/info/uptime"
LoadUrl == "/api/v1/info/load"
NoUrlKw == "<no url keyword>"

\* the JSON bodies a server may send: the "version" and "status" members,
\* None when the member is missing or null
Bodies ==
    { [version |-> "1.2.0", status |-> "UP"],
      [version |-> "1.3.2", status |-> "UP"],
      [version |-> "1.4.0", status |-> "DOWN"],
      [version |-> None, status |-> "UP"],
      [version |-> "", status |-> "DOWN"],
      [version |-> "1.3.2", status |-> None] }

ErrorBody == [version |-> "1.4.0", status |-> "DOWN"]

ErrorCodes == {199, 300, 404, 500}

\* what the underlying httpx transport does with one request: it raises, or
\* it returns a response (json = FALSE: the body is no JSON document; cd is
\* the Content-Disposition header, "" when absent; content the body bytes)
TransportError ==
    [kind |-> "error", code |-> 0, json |-> FALSE, version |-> None,
     status |-> None, cd |-> "", content |-> ""]

Response(code, json, body) ==
    [kind |-> "resp", code |-> code, json |-> json, version |-> body.version,
     status |-> body.status, cd |-> "", content |-> "json"]

Responses ==
    {TransportError}
    \cup { Response(200, TRUE, b) : b \in Bodies }
    \cup { Response(299, TRUE, ErrorBody) }
    \cup { Response(c, TRUE, ErrorBody) : c \in ErrorCodes }
    \cup { Response(200, FALSE, [version |-> None, status |-> None]) }

\* a validation that lets the redirections through
validate_response_Below400(code) == 200 <= code /\ code < 400

\* validate_response returns the response for 200 <= status_code < 300 and
\* raises otherwise
validate_response(code) == 200 <= code /\ code < 300

\* Python truthiness of Optional[str]
Truthy(s) == s # None /\ s # ""

(***************************************************************************)
(* ProxyClient                                                             *)
(***************************************************************************)
\* ProxyClient.update_status, run to completion
update_status(v, h) == [version |-> v, server_status |-> h]

\* a test that takes every request with a url keyword for a status check
IsStatusRequest_AnyUrlKeyword(urlkw) == urlkw # NoUrlKw

\* kwargs.get("url") == "/api/v1/info/status"
IsStatusRequest(urlkw) == urlkw = StatusUrl

\* a guard that tests "is None" where the code tests truthiness
Refuses_IsNoneOnly(ver) == ver = None

\* the guard of ProxyClient.request: if not self.version: raise ValueError
Refuses(ver) == ~Truthy(ver)

\* a request that refreshes the fields from the body of a status answer
\* before it validates the answer
ProxyRequest_RefreshFirst(ver, hlth, urlkw, r) ==
    IF Refuses(ver)
    THEN [outcome |-> "ValueError", sent |-> 0,
          version |-> ver, server_status |-> hlth]
    ELSE IF r.kind = "error"
    THEN [outcome |-> "TransportError", sent |-> 1,
          version |-> ver, server_status |-> hlth]
    ELSE IF IsStatusRequest(urlkw)
    THEN IF ~r.json
         THEN [outcome |-> "JSONError", sent |-> 1,
               version |-> ver, server_status |-> hlth]
         ELSE LET u == update_status(r.version, r.status)
              IN  [outcome |-> IF validate_response(r.code)
                               THEN "ok" ELSE "StatusError",
                   sent |-> 1,
                   version |-> u.version, server_status |-> u.server_status]
    ELSE IF ~validate_response(r.code)
    THEN [outcome |-> "StatusError", sent |-> 1,
          version |-> ver, server_status |-> hlth]
    ELSE [outcome |-> "ok", sent |-> 1,
          version |-> ver, server_status |-> hlth]

\* a request that lets a status check through while the version is unset
ProxyRequest_StatusBypassesGuard(ver, hlth, urlkw, r) ==
    IF Refuses(ver) /\ ~IsStatusRequest(urlkw)
    THEN [outcome |-> "ValueError", sent |-> 0,
          version |-> ver, server_status |-> hlth]
    ELSE IF r.kind = "error"
    THEN [outcome |-> "TransportError", sent |-> 1,
          version |-> ver, server_status |-> hlth]
    ELSE IF ~validate_response(r.code)
    THEN [outcome |-> "StatusError", sent |-> 1,
          version |-> ver, server_status |-> hlth]
    ELSE IF IsStatusRequest(urlkw)
    THEN IF ~r.json
         THEN [outcome |-> "JSONError", sent |-> 1,
               version |-> ver, server_status |-> hlth]
         ELSE LET u == update_status(r.version, r.status)
              IN  [outcome |-> "ok", sent |-> 1,
                   version |-> u.version, server_status |-> u.server_status]
    ELSE [outcome |-> "ok", sent |-> 1,
          version |-> ver, server_status |-> hlth]

\* ProxyClient.request on a wrapper whose fields are (ver, hlth); urlkw is
\* kwargs.get("url"), r what the transport does.  The result names how the
\* call ended, how many requests reached the transport, and the fields after.
ProxyRequest(ver, hlth, urlkw, r) ==
    IF Refuses(ver)
    THEN [outcome |-> "ValueError", sent |-> 0,
          version |-> ver, server_status |-> hlth]
    ELSE IF r.kind = "error"
    THEN [outcome |-> "TransportError", sent |-> 1,
          version |-> ver, server_status |-> hlth]
    ELSE IF ~validate_response(r.code)
    THEN [outcome |-> "StatusError", sent |-> 1,
          version |-> ver, server_status |-> hlth]
    ELSE IF IsStatusRequest(urlkw)
    THEN IF ~r.json
         THEN [outcome |-> "JSONError", sent |-> 1,
               version |-> ver, server_status |-> hlth]
         ELSE LET u == update_status(r.version, r.status)
              IN  [outcome |-> "ok", sent |-> 1,
                   version |-> u.version, server_status |-> u.server_status]
    ELSE [outcome |-> "ok", sent |-> 1,
          version |-> ver, server_status |-> hlth]

\* a bootstrap that parses the body without validating the status class
GetStatus_NoValidation(r) ==
    IF r.kind = "error" THEN [outcome |-> "TransportError", sent |-> 1]
    ELSE IF ~r.json THEN [outcome |-> "JSONError", sent |-> 1]
    ELSE [outcome |-> "ok", sent |-> 1]

\* ProxyClient.__get_status: one request straight to the transport
\* (super().request), validated and parsed
GetStatus(r) ==
    IF r.kind = "error" THEN [outcome |-> "TransportError", sent |-> 1]
    ELSE IF ~validate_response(r.code) THEN [outcome |-> "StatusError", sent |-> 1]
    ELSE IF ~r.json THEN [outcome |-> "JSONError", sent |-> 1]
    ELSE [outcome |-> "ok", sent |-> 1]

\* ProxyClient.__init__ after super().__init__: the fields it leaves
InitFields(r) == [version |-> r.version, server_status |-> r.status]

(***************************************************************************)
(* The observation of one call.                                            *)
(***************************************************************************)
NoPath == "<no path>"

NoCall ==
    [op |-> "none", url |-> NoUrlKw, urlkw |-> NoUrlKw, resp |-> TransportError,
     outcome |-> "none", sent |-> 0, entered |-> FALSE,
     pre_version |-> None, pre_status |-> None, pre_nreq |-> 0,
     file_input |-> None, file_id |-> None, opened |-> 0, closed |-> 0,
     wrote |-> NoPath, wire_file |-> FALSE, wire_file_id |-> None,
     pre_disk |-> <<>>, literal |-> None, payload_closed |-> 0]

\* a call op that sent its request to url, with kwargs.get("url") = urlkw
Obs(op, url, urlkw, r, res, entered) ==
    [NoCall EXCEPT !.op = op, !.url = url, !.urlkw = urlkw, !.resp = r,
                   !.outcome = res.outcome, !.sent = res.sent,
                   !.entered = entered,
                   !.pre_version = version, !.pre_status = server_status,
                   !.pre_nreq = nreq, !.pre_disk = disk]

\* the files of the output area before any call
OutDir == <<"out">>
OutFile == <<"out", "result.bin">>
OutMissing == <<"nowhere">>
InitDisk == (OutFile :> "old")

mtvars == <<pc, inflight, observed, pairs>>

\* no comparison made, no filename derived
NoCompare == [done |-> FALSE]
NoName == [done |-> FALSE]

\* no call of save_file made
NoSave == [done |-> FALSE]

\* the six operation modules of the facade
Modules == {"info", "convert", "security", "misc", "general", "filter"}

\* no facade made: no base_url, no module holds a client
NoFacade == [base_url |-> None, modules |-> [m \in Modules |-> 0]]

sidevars == <<saved, clients, facade>>

purevars == <<compared, named, sidevars>>

Init ==
    /\ constructed = FALSE
    /\ version = None
    /\ server_status = None
    /\ nreq = 0
    /\ calls = 0
    /\ last = NoCall
    /\ open_handles = 0
    /\ disk = InitDisk
    /\ pc = <<>>
    /\ inflight = <<>>
    /\ observed = <<None, None>>
    /\ pairs = {}
    /\ compared = NoCompare
    /\ named = NoName
    /\ saved = NoSave
    /\ clients = <<>>
    /\ facade = NoFacade

(***************************************************************************)
(* Spec: construction, requests and the info operations.                   *)
(***************************************************************************)
\* ProxyClient.__init__ (and StirlingPDFClient.__init__, which only adds the
\* six modules around the instance): when it raises, no instance exists
Construct ==
    \E r \in Responses :
        /\ ~constructed
        /\ calls < MaxCalls
        /\ LET res == GetStatus(r)
               ok == res.outcome = "ok"
               f == InitFields(r)
           IN  /\ constructed' = ok
               /\ server_status' = IF ok THEN f.server_status ELSE server_status
               /\ version' = IF ok THEN f.version ELSE version
               /\ nreq' = nreq + res.sent
               /\ last' = Obs("init", StatusUrl, StatusUrl, r, res, TRUE)
        /\ calls' = calls + 1
        /\ UNCHANGED <<open_handles, disk, mtvars, purevars>>

\* the effect of one call that goes through ProxyClient.request
Through(op, url, urlkw, r, res, entered) ==
    /\ version' = res.version
    /\ server_status' = res.server_status
    /\ nreq' = nreq + res.sent
    /\ last' = Obs(op, url, urlkw, r, res, entered)
    /\ calls' = calls + 1
    /\ UNCHANGED <<constructed, open_handles, disk, mtvars, purevars>>

\* a caller's own client.request(method="GET", url=...)
ClientRequestKw ==
    \E url \in {StatusUrl, UptimeUrl}, r \in Responses :
        /\ constructed
        /\ calls < MaxCalls
        /\ Through("request_kw", url, url, r,
                   ProxyRequest(version, server_status, url, r), TRUE)

\* a caller's own client.request("GET", url): no "url" among the keywords
ClientRequestPos ==
    \E url \in {StatusUrl, UptimeUrl}, r \in Responses :
        /\ constructed
        /\ calls < MaxCalls
        /\ Through("request_pos", url, NoUrlKw, r,
                   ProxyRequest(version, server_status, NoUrlKw, r), TRUE)

\* InfoApi.get_uptime
get_uptime ==
    \E r \in Responses :
        /\ constructed
        /\ calls < MaxCalls
        /\ Through("get_uptime", UptimeUrl, UptimeUrl, r,
                   ProxyRequest(version, server_status, UptimeUrl, r), TRUE)

\* InfoApi.get_status
get_status ==
    \E r \in Responses :
        /\ constructed
        /\ calls < MaxCalls
        /\ Through("get_status", StatusUrl, StatusUrl, r,
                   ProxyRequest(version, server_status, StatusUrl, r), TRUE)

(***************************************************************************)
(* Capability gate                                                         *)
(***************************************************************************)
\* requires_server_version.wrapper: server_version is
\* getattr(client, "version", "0.0.0"); the attribute exists on every
\* ProxyClient (class attribute version = None), so the default is not used
GateServerVersion(ver) == ver

\* a gate that also rejects a server exactly at the minimum version
GateBlocks_OffByOne(server_version, min_version) ==
    compare_versions(server_version, min_version) <= 0

\* comparison_result < 0
GateBlocks(server_version, min_version) ==
    compare_versions(server_version, min_version) < 0

\* a gate that answers every error of the wrapped function with its own
Gated_ReplacesError(min_version, ver, hlth, func) ==
    IF GateBlocks(GateServerVersion(ver), min_version)
    THEN [outcome |-> "CapabilityError", sent |-> 0, entered |-> FALSE,
          version |-> ver, server_status |-> hlth]
    ELSE [outcome |-> IF func.outcome = "ok" THEN "ok" ELSE "CapabilityError",
          sent |-> func.sent, entered |-> TRUE,
          version |-> func.version, server_status |-> func.server_status]

\* requires_server_version.wrapper around a function whose call, made on the
\* fields (ver, hlth), does what func says: the gate raises, or it calls the
\* function once and returns its result, re-raising what it raises
Gated(min_version, ver, hlth, func) ==
    IF GateBlocks(GateServerVersion(ver), min_version)
    THEN [outcome |-> "CapabilityError", sent |-> 0, entered |-> FALSE,
          version |-> ver, server_status |-> hlth]
    ELSE [outcome |-> func.outcome, sent |-> func.sent, entered |-> TRUE,
          version |-> func.version, server_status |-> func.server_status]

\* the minimum version InfoApi.get_load declares
MinLoadVersion == "1.3.2"

\* the function get_load that the decorator wraps: one request, then
\* resp.json() of what came back
get_load_func(ver, hlth, r) ==
    LET res == ProxyRequest(ver, hlth, LoadUrl, r)
    IN  IF res.outcome = "ok" /\ ~r.json
        THEN [res EXCEPT !.outcome = "JSONError"]
        ELSE res

\* InfoApi.get_load, decorated with requires_server_version("1.3.2")
get_load ==
    \E r \in Responses :
        /\ constructed
        /\ calls < MaxCalls
        /\ LET res == Gated(MinLoadVersion, version, server_status,
                            get_load_func(version, server_status, r))
           IN  Through("get_load", LoadUrl, LoadUrl, r, res, res.entered)

Next ==
    \/ Construct
    \/ ClientRequestKw
    \/ ClientRequestPos
    \/ get_uptime
    \/ get_status
    \/ get_load

Spec == Init /\ [][Next]_vars


(***************************************************************************)
(* Response materializer: get_filename and save_file.                      *)
(***************************************************************************)
UpperCase == "ABCDEFGHIJKLMNOPQRSTUVWXYZ"
LowerCase == "abcdefghijklmnopqrstuvwxyz"

\* c lower-cased (re.IGNORECASE, ASCII letters)
ToLower(c) ==
    IF \E k \in 1..Len(UpperCase) : At(UpperCase, k) = c
    THEN At(LowerCase, CHOOSE k \in 1..Len(UpperCase) : At(UpperCase, k) = c)
    ELSE c

\* word (lower case) stands at position i of s, whatever the case in s
MatchesIgnoreCase(s, i, word) ==
    /\ i + Len(word) - 1 <= Len(s)
    /\ \A k \in 1..Len(word) : ToLower(At(s, i + k - 1)) = At(word, k)

\* the position of the equals sign when the pattern (filename, an optional
\* star, an equals sign, one or more characters other than a semicolon)
\* matches at position i, else 0
FilenameMatchAt(s, i) ==
    IF ~MatchesIgnoreCase(s, i, "filename") THEN 0
    ELSE LET j == i + Len("filename")
             k == IF j <= Len(s) /\ At(s, j) = "*" THEN j + 1 ELSE j
         IN  IF /\ k + 1 <= Len(s)
                /\ At(s, k) = "="
                /\ At(s, k + 1) # ";"
             THEN k
             ELSE 0

\* the end (exclusive) of the run of characters other than ";" from i on
RECURSIVE GroupEnd(_, _)
GroupEnd(s, i) ==
    IF i <= Len(s) /\ At(s, i) # ";" THEN GroupEnd(s, i + 1) ELSE i

\* re.search of that pattern, re.IGNORECASE, from position i on: TRUE and
\* group 1 of the leftmost match, or FALSE
RECURSIVE SearchFilename(_, _)
SearchFilename(s, i) ==
    IF i > Len(s) THEN <<FALSE, "">>
    ELSE LET k == FilenameMatchAt(s, i)
         IN  IF k > 0
             THEN <<TRUE, SubSeq(s, k + 1, GroupEnd(s, k + 1) - 1)>>
             ELSE SearchFilename(s, i + 1)

StripChars == {" ", "\"", "'"}

\* str.strip of space, double quote and single quote
RECURSIVE LStrip(_)
LStrip(s) ==
    IF Len(s) > 0 /\ At(s, 1) \in StripChars THEN LStrip(SubSeq(s, 2, Len(s))) ELSE s

RECURSIVE RStrip(_)
RStrip(s) ==
    IF Len(s) > 0 /\ At(s, Len(s)) \in StripChars
    THEN RStrip(SubSeq(s, 1, Len(s) - 1))
    ELSE s

Strip(s) == RStrip(LStrip(s))

StartsWith(s, p) == Len(s) >= Len(p) /\ SubSeq(s, 1, Len(p)) = p

\* the printable ASCII characters by code: 32 (space) to 95, and 97 to 126
\* (the grave accent, code 96, cannot be written in a TLA+ string)
AsciiLow ==
    " !\"#$%&'()*+,-./0123456789:;<=>?@ABCDEFGHIJKLMNOPQRSTUVWXYZ[\\]^_"

AsciiHigh == "abcdefghijklmnopqrstuvwxyz{|}~"

Decodable(code) == code \in (32..126) \ {96}

CharOfCode(code) ==
    IF code <= 95 THEN At(AsciiLow, code - 31) ELSE At(AsciiHigh, code - 96)

HexDigits == "0123456789abcdef"

IsHex(c) == \E k \in 1..Len(HexDigits) : At(HexDigits, k) = ToLower(c)

HexVal(c) == (CHOOSE k \in 1..Len(HexDigits) : At(HexDigits, k) = ToLower(c)) - 1

\* urllib.parse.unquote from position i on, for escapes of printable ASCII
\* (the inputs of the model hold no other escape): %XX becomes the character
\* with code XX, a "%" that starts no escape stays
RECURSIVE UnquoteFrom(_, _)
UnquoteFrom(s, i) ==
    IF i > Len(s) THEN ""
    ELSE IF /\ At(s, i) = "%"
            /\ i + 2 <= Len(s)
            /\ IsHex(At(s, i + 1))
            /\ IsHex(At(s, i + 2))
            /\ Decodable(16 * HexVal(At(s, i + 1)) + HexVal(At(s, i + 2)))
         THEN CharOfCode(16 * HexVal(At(s, i + 1)) + HexVal(At(s, i + 2)))
              \o UnquoteFrom(s, i + 3)
         ELSE At(s, i) \o UnquoteFrom(s, i + 1)

unquote(s) == UnquoteFrom(s, 1)

IllegalChars == {"<", ">", ":", "\"", "/", "\\", "|", "?", "*"}

\* re.sub: every character of IllegalChars becomes an underscore
RECURSIVE Sanitize(_)
Sanitize(s) ==
    IF Len(s) = 0 THEN ""
    ELSE (IF At(s, 1) \in IllegalChars THEN "_" ELSE At(s, 1))
         \o Sanitize(SubSeq(s, 2, Len(s)))

DefaultFilename == "unkown_filename"

\* a get_filename that replaces the characters before it decodes the escapes
get_filename_SanitizeFirst(cd) ==
    LET m == SearchFilename(cd, 1)
    IN  IF cd # "" /\ m[1]
        THEN LET filename == Sanitize(Strip(m[2]))
             IN  IF StartsWith(filename, "UTF-8''")
                    \/ StartsWith(filename, "utf-8''")
                 THEN unquote(SubSeq(filename, 8, Len(filename)))
                 ELSE filename
        ELSE DefaultFilename

\* get_filename for a response whose Content-Disposition header is cd ("" when
\* the header is absent)
get_filename(cd) ==
    LET m == SearchFilename(cd, 1)
    IN  IF cd # "" /\ m[1]
        THEN LET filename == Strip(m[2])
                 decoded == IF StartsWith(filename, "UTF-8''")
                               \/ StartsWith(filename, "utf-8''")
                            THEN unquote(SubSeq(filename, 8, Len(filename)))
                            ELSE filename
             IN  Sanitize(decoded)
        ELSE DefaultFilename

\* the Content-Disposition headers of the modelled responses
CdNamed == "attachment; filename=\"r.pdf\""

\* further headers a server can send: names that are no file name (two dots,
\* one dot, nothing but a blank), an escaped separator, the name of a
\* directory and the name of a file that exist in the output directory
CdDotDot == "attachment; filename=\"..\""
CdDot == "attachment; filename=."
CdBlank == "attachment; filename=\" \""
CdEscaped == "attachment; filename*=UTF-8''a%2Fb.pdf"
CdSub == "attachment; filename=sub"
CdExisting == "attachment; filename=result.bin"

Headers ==
    {"", CdNamed, CdDotDot, CdDot, CdBlank, CdEscaped, CdSub, CdExisting}

\* get_filename over Headers, evaluated once
FilenameOf == [cd \in Headers |-> get_filename(cd)]

\* a path is the sequence of its components; the directories that exist
\* (the working directory, which relative paths start from, is the empty path)
Cwd == <<>>
OutSub == <<"out", "sub">>
Dirs == {Cwd, OutDir, OutSub}

is_file(p, d) == p \in DOMAIN d

\* Path.joinpath(name) for a name without separator: pathlib drops an empty
\* component and "."
joinpath(p, name) == IF name \in {"", "."} THEN p ELSE Append(p, name)

\* an open that makes the missing directories of the target
CanWrite_MakesParents(t) ==
    /\ Len(t) >= 1
    /\ t \notin Dirs
    /\ t[Len(t)] # ".."

\* open(target, "wb") succeeds when the parent is a directory and the target
\* is none
CanWrite(t) ==
    /\ Len(t) >= 1
    /\ t \notin Dirs
    /\ t[Len(t)] # ".."
    /\ SubSeq(t, 1, Len(t) - 1) \in Dirs

\* a save_file that appends the derived name whatever out_path is
save_file_AlwaysJoin(r, out_path, d) ==
    LET target_file == joinpath(out_path, FilenameOf[r.cd])
    IN  IF CanWrite(target_file)
        THEN [ok |-> TRUE, target |-> target_file,
              disk |-> [p \in DOMAIN d \cup {target_file} |->
                            IF p = target_file THEN r.content ELSE d[p]]]
        ELSE [ok |-> FALSE, target |-> NoPath, disk |-> d]

\* save_file(resp, out_path) on the files d
save_file(r, out_path, d) ==
    LET target_file == IF is_file(out_path, d) THEN out_path
                       ELSE joinpath(out_path, FilenameOf[r.cd])
    IN  IF CanWrite(target_file)
        THEN [ok |-> TRUE, target |-> target_file,
              disk |-> [p \in DOMAIN d \cup {target_file} |->
                            IF p = target_file THEN r.content ELSE d[p]]]
        ELSE [ok |-> FALSE, target |-> NoPath, disk |-> d]

(***************************************************************************)
(* SpecOps: the operations that upload files and save the response.        *)
(***************************************************************************)
MaxOps == 2

\* the input files that exist; open(path, "rb") of any other path raises
ExistingInputs == {"in.pdf", "extra.pdf"}

CanOpen(p) == p \in ExistingInputs

\* [open(f, "rb") for f in paths]: the handles opened, and whether all were
RECURSIVE OpenAll(_)
OpenAll(paths) ==
    IF paths = <<>> THEN [n |-> 0, ok |-> TRUE]
    ELSE IF ~CanOpen(Head(paths)) THEN [n |-> 0, ok |-> FALSE]
    ELSE LET rest == OpenAll(Tail(paths))
         IN  [n |-> 1 + rest.n, ok |-> rest.ok]

\* the (file_input, file_id) pairs a caller passes
Args ==
    { [file_input |-> None, file_id |-> None],
      [file_input |-> None, file_id |-> "id-1"],
      [file_input |-> "in.pdf", file_id |-> None],
      [file_input |-> "in.pdf", file_id |-> "id-1"],
      [file_input |-> "missing.pdf", file_id |-> None] }

OutPaths == {OutFile, OutDir, OutMissing}

FileResponse(code, cd, content) ==
    [kind |-> "resp", code |-> code, json |-> FALSE, version |-> None,
     status |-> None, cd |-> cd, content |-> content]

FileResponses ==
    { TransportError,
      FileResponse(200, CdNamed, "pdf"),
      FileResponse(200, "", "pdf"),
      FileResponse(500, CdNamed, "error text") }

\* a wrapper after a successful construction
InitOps ==
    /\ constructed = TRUE
    /\ \E b \in {c \in Bodies : c.status = "UP"} :
          /\ version = InitFields(b).version
          /\ server_status = InitFields(b).server_status
    /\ nreq = 1
    /\ calls = 0
    /\ last = NoCall
    /\ open_handles = 0
    /\ disk = InitDisk
    /\ pc = <<>>
    /\ inflight = <<>>
    /\ observed = <<None, None>>
    /\ pairs = {}
    /\ compared = NoCompare
    /\ named = NoName
    /\ saved = NoSave
    /\ clients = <<>>
    /\ facade = NoFacade

\* the handles of the payload that were closed already when the method
\* called client.request; 0 for a method that closes after the request
ClosedInPayload(o) ==
    IF "payload_closed" \in DOMAIN o THEN o.payload_closed ELSE 0

\* one call of an operation method ends: o says what it did
EndOp(o) ==
    /\ last' = [NoCall EXCEPT !.op = o.op, !.url = o.url, !.urlkw = o.url,
                              !.resp = o.resp, !.outcome = o.outcome,
                              !.sent = o.sent, !.entered = TRUE,
                              !.pre_version = version,
                              !.pre_status = server_status,
                              !.pre_nreq = nreq, !.pre_disk = disk,
                              !.file_input = o.file_input,
                              !.file_id = o.file_id,
                              !.opened = o.opened, !.closed = o.closed,
                              !.wrote = o.wrote,
                              !.wire_file = o.wire_file,
                              !.wire_file_id = o.wire_file_id,
                              !.literal = o.literal,
                              !.payload_closed = ClosedInPayload(o)]
    /\ open_handles' = open_handles + o.opened - o.closed
    /\ disk' = o.disk
    /\ nreq' = nreq + o.sent
    /\ version' = o.version
    /\ server_status' = o.server_status
    /\ calls' = calls + 1
    /\ UNCHANGED <<constructed, mtvars, purevars>>

\* the arguments of a call together with the value v it passes for its
\* parameter of enumerated literals
WithLiteral(a, v) ==
    [file_input |-> a.file_input, file_id |-> a.file_id, literal |-> v]

\* the value passed for the enumerated parameter, None when the call has none
Lit(a) == IF "literal" \in DOMAIN a THEN a.literal ELSE None

\* the method raised before it issued its request, with opened handles open
RaisedBefore(op, url, a, outcome, opened) ==
    [op |-> op, url |-> url, resp |-> TransportError, outcome |-> outcome,
     sent |-> 0, file_input |-> a.file_input, file_id |-> a.file_id,
     opened |-> opened, closed |-> 0, wrote |-> NoPath, disk |-> disk,
     wire_file |-> FALSE, wire_file_id |-> None, literal |-> Lit(a),
     version |-> version, server_status |-> server_status]

\* the request was issued (or refused by the wrapper) and raised
RaisedInRequest(op, url, a, r, res, opened) ==
    [op |-> op, url |-> url, resp |-> r, outcome |-> res.outcome,
     sent |-> res.sent, file_input |-> a.file_input, file_id |-> a.file_id,
     opened |-> opened, closed |-> 0, wrote |-> NoPath, disk |-> disk,
     wire_file |-> res.sent = 1 /\ a.file_input # None,
     wire_file_id |-> IF res.sent = 1 THEN a.file_id ELSE None,
     literal |-> Lit(a),
     version |-> res.version, server_status |-> res.server_status]

\* the request returned; sv is what save_file did, closed the handles closed
\* when the method exits, outcome how it exits
Saved(op, url, a, r, res, sv, opened, closed, outcome) ==
    [op |-> op, url |-> url, resp |-> r, outcome |-> outcome,
     sent |-> res.sent, file_input |-> a.file_input, file_id |-> a.file_id,
     opened |-> opened, closed |-> closed, wrote |-> sv.target,
     disk |-> sv.disk,
     wire_file |-> a.file_input # None, wire_file_id |-> a.file_id,
     literal |-> Lit(a),
     version |-> res.version, server_status |-> res.server_status]

\* the shape most operation methods share: (validate,) open file_input when
\* given, request, close, save_file
SingleFileOp(op, url, validates, a) ==
    IF validates /\ a.file_input = None /\ a.file_id = None
    THEN EndOp(RaisedBefore(op, url, a, "ValueError", 0))
    ELSE IF a.file_input # None /\ ~CanOpen(a.file_input)
    THEN EndOp(RaisedBefore(op, url, a, "FileNotFoundError", 0))
    ELSE LET n == IF a.file_input # None THEN 1 ELSE 0
         IN  \E r \in FileResponses :
                LET res == ProxyRequest(version, server_status, url, r)
                IN  IF res.outcome # "ok"
                    THEN EndOp(RaisedInRequest(op, url, a, r, res, n))
                    ELSE \E out \in OutPaths :
                            LET sv == save_file(r, out, disk)
                            IN  EndOp(Saved(op, url, a, r, res, sv, n, n,
                                            IF sv.ok THEN "ok" ELSE "OSError"))

\* the values pdf_to_word accepts for output_format
WordFormats == {"doc", "docx"}

\* ConvertApi.pdf_to_word
pdf_to_word ==
    \E output_format \in {"doc", "odt"}, a \in Args :
        /\ constructed
        /\ calls < MaxOps
        /\ IF output_format \notin WordFormats
           THEN EndOp(RaisedBefore("pdf_to_word", "/api/v1/convert/pdf/word",
                                   WithLiteral(a, output_format), "ValueError", 0))
           ELSE SingleFileOp("pdf_to_word", "/api/v1/convert/pdf/word", TRUE,
                             WithLiteral(a, output_format))

\* GeneralApi.split_pdf_by_sections
split_pdf_by_sections ==
    \E a \in Args :
        /\ constructed
        /\ calls < MaxOps
        /\ SingleFileOp("split_pdf_by_sections",
                        "/api/v1/general/split-pdf-by-sections", TRUE, a)

\* FilterApi.filter_page_size: no check of the two alternatives
filter_page_size ==
    \E a \in Args :
        /\ constructed
        /\ calls < MaxOps
        /\ SingleFileOp("filter_page_size",
                        "/api/v1/filter/filter-page-size", FALSE, a)

\* MiscApi.replace_invert_pdf: no check of the two alternatives
replace_invert_pdf ==
    \E a \in Args :
        /\ constructed
        /\ calls < MaxOps
        /\ SingleFileOp("replace_invert_pdf",
                        "/api/v1/misc/replace-invert-pdf", FALSE, a)

\* the lists of overlay files, of merge inputs
FileLists ==
    { <<>>, <<"extra.pdf">>, <<"in.pdf", "extra.pdf">>, <<"extra.pdf", "missing.pdf">> }

\* GeneralApi.overlay_pdfs: the overlay files are opened after file_input and
\* closed after save_file
overlay_pdfs ==
    \E a \in Args, overlay_files \in FileLists :
        /\ constructed
        /\ calls < MaxOps
        /\ LET op == "overlay_pdfs"
               url == "/api/v1/general/overlay-pdfs"
               n == IF a.file_input # None THEN 1 ELSE 0
               ov == OpenAll(overlay_files)
           IN  IF a.file_input = None /\ a.file_id = None
               THEN EndOp(RaisedBefore(op, url, a, "ValueError", 0))
               ELSE IF a.file_input # None /\ ~CanOpen(a.file_input)
               THEN EndOp(RaisedBefore(op, url, a, "FileNotFoundError", 0))
               ELSE IF ~ov.ok
               THEN EndOp(RaisedBefore(op, url, a, "FileNotFoundError", n + ov.n))
               ELSE \E r \in FileResponses :
                      LET res == ProxyRequest(version, server_status, url, r)
                      IN  IF res.outcome # "ok"
                          THEN EndOp(RaisedInRequest(op, url, a, r, res, n + ov.n))
                          ELSE \E out \in OutPaths :
                                 LET sv == save_file(r, out, disk)
                                 IN  IF sv.ok
                                     THEN EndOp(Saved(op, url, a, r, res, sv,
                                                      n + ov.n, n + ov.n, "ok"))
                                     ELSE EndOp(Saved(op, url, a, r, res, sv,
                                                      n + ov.n, n, "OSError"))

NoArgs == [file_input |-> None, file_id |-> None]

\* GeneralApi.merge_pdfs: after save_file the loop calls close() on the paths
\* of file_inputs, not on the handles, and a Path has no close()
merge_pdfs ==
    \E file_inputs \in FileLists :
        /\ constructed
        /\ calls < MaxOps
        /\ LET op == "merge_pdfs"
               url == "/api/v1/general/merge-pdfs"
               a == NoArgs
               fs == OpenAll(file_inputs)
           IN  IF ~fs.ok
               THEN EndOp(RaisedBefore(op, url, a, "FileNotFoundError", fs.n))
               ELSE \E r \in FileResponses :
                      LET res == ProxyRequest(version, server_status, url, r)
                      IN  IF res.outcome # "ok"
                          THEN EndOp(RaisedInRequest(op, url, a, r, res, fs.n))
                          ELSE \E out \in OutPaths :
                                 LET sv == save_file(r, out, disk)
                                 IN  EndOp(Saved(op, url, a, r, res, sv, fs.n, 0,
                                                 IF ~sv.ok THEN "OSError"
                                                 ELSE IF file_inputs # <<>>
                                                 THEN "AttributeError"
                                                 ELSE "ok"))

\* StampOptions.stamp_image and StampOptions.position as a caller sets them
StampOptionsSet ==
    { [stamp_image |-> None, position |-> "middleCenter"],
      [stamp_image |-> "extra.pdf", position |-> "middleCenter"],
      [stamp_image |-> "extra.pdf", position |-> "center"],
      [stamp_image |-> "missing.pdf", position |-> "topLeft"] }

\* the keys of POSITION_MAPPING
Positions ==
    { "topLeft", "topRight", "topCenter", "bottomLeft", "bottomRight",
      "bottomCenter", "middleLeft", "middleRight", "middleCenter" }

\* MiscApi.add_stamp: the stamp image is opened while the request data is
\* built (before the position is looked up) and is closed nowhere
add_stamp ==
    \E b \in Args, options \in StampOptionsSet :
        /\ constructed
        /\ calls < MaxOps
        /\ LET op == "add_stamp"
               url == "/api/v1/misc/add-stamp"
               a == WithLiteral(b, options.position)
               n == IF a.file_input # None THEN 1 ELSE 0
           IN  IF a.file_input = None /\ a.file_id = None
               THEN EndOp(RaisedBefore(op, url, a, "ValueError", 0))
               ELSE IF a.file_input # None /\ ~CanOpen(a.file_input)
               THEN EndOp(RaisedBefore(op, url, a, "FileNotFoundError", 0))
               ELSE IF options.stamp_image = None
               THEN EndOp(RaisedBefore(op, url, a, "TypeError", n))
               ELSE IF ~CanOpen(options.stamp_image)
               THEN EndOp(RaisedBefore(op, url, a, "FileNotFoundError", n))
               ELSE IF options.position \notin Positions
               THEN EndOp(RaisedBefore(op, url, a, "KeyError", n + 1))
               ELSE \E r \in FileResponses :
                      LET res == ProxyRequest(version, server_status, url, r)
                      IN  IF res.outcome # "ok"
                          THEN EndOp(RaisedInRequest(op, url, a, r, res, n + 1))
                          ELSE \E out \in OutPaths :
                                 LET sv == save_file(r, out, disk)
                                 IN  EndOp(Saved(op, url, a, r, res, sv, n + 1, n,
                                                 IF sv.ok THEN "ok" ELSE "OSError"))

\* GeneralApi.extract_bookmarks: the parameter file is overwritten with None
\* before open(file, "rb"), which raises TypeError for every argument
extract_bookmarks ==
    \E file \in ExistingInputs \cup {"missing.pdf"} :
        /\ constructed
        /\ calls < MaxOps
        /\ EndOp(RaisedBefore("extract_bookmarks",
                               "/api/v1/general/extract-bookmarks",
                               [file_input |-> file, file_id |-> None],
                               "TypeError", 0))

\* GeneralApi.crop: the arguments of the request are evaluated before the
\* request is called, and options.model_dump() raises AttributeError (CropBox
\* is a dataclass and has no such method), with file_input already open
crop ==
    \E a \in Args :
        /\ constructed
        /\ calls < MaxOps
        /\ LET op == "crop"
               url == "/api/v1/general/crop"
               n == IF a.file_input # None THEN 1 ELSE 0
           IN  IF a.file_input = None /\ a.file_id = None
               THEN EndOp(RaisedBefore(op, url, a, "ValueError", 0))
               ELSE IF a.file_input # None /\ ~CanOpen(a.file_input)
               THEN EndOp(RaisedBefore(op, url, a, "FileNotFoundError", 0))
               ELSE EndOp(RaisedBefore(op, url, a, "AttributeError", n))

\* the values the annotation of rotate_page allows for angle
Angles == {0, 90, 180, 270}

\* GeneralApi.rotate_page: angle goes into the form data as it is passed
rotate_page ==
    \E a \in Args, angle \in {90, 45} :
        /\ constructed
        /\ calls < MaxOps
        /\ SingleFileOp("rotate_page", "/api/v1/general/rotate-page", TRUE,
                        WithLiteral(a, angle))

\* ConvertApi.advanced_pdf_conversion: a plain method, no decorator
advanced_pdf_conversion ==
    \E a \in Args :
        /\ constructed
        /\ calls < MaxOps
        /\ SingleFileOp("advanced_pdf_conversion",
                        "/api/v1/convert/pdf/advanced", TRUE, a)

\* ConvertApi.pdf_to_xml: after the check of the two alternatives,
\* open(file_input, "rb") heads a with block whatever file_input is, and
\* open(None) raises TypeError; the block closes the handle on every exit
pdf_to_xml ==
    \E a \in Args :
        /\ constructed
        /\ calls < MaxOps
        /\ LET op == "pdf_to_xml"
               url == "/api/v1/convert/pdf/xml"
           IN  IF a.file_input = None /\ a.file_id = None
               THEN EndOp(RaisedBefore(op, url, a, "ValueError", 0))
               ELSE IF a.file_input = None
               THEN EndOp(RaisedBefore(op, url, a, "TypeError", 0))
               ELSE IF ~CanOpen(a.file_input)
               THEN EndOp(RaisedBefore(op, url, a, "FileNotFoundError", 0))
               ELSE \E r \in FileResponses :
                      LET res == ProxyRequest(version, server_status, url, r)
                      IN  IF res.outcome # "ok"
                          THEN EndOp([RaisedInRequest(op, url, a, r, res, 1)
                                         EXCEPT !.closed = 1])
                          ELSE \E out \in OutPaths :
                                 LET sv == save_file(r, out, disk)
                                 IN  EndOp(Saved(op, url, a, r, res, sv, 1, 1,
                                                 IF sv.ok THEN "ok" ELSE "OSError"))

\* ConvertApi.html_to_pdf: open(file_input, "rb") whatever file_input is;
\* the handle is closed after the request returned, before save_file
html_to_pdf ==
    \E a \in Args :
        /\ constructed
        /\ calls < MaxOps
        /\ LET op == "html_to_pdf"
               url == "/api/v1/convert/html/pdf"
           IN  IF a.file_input = None /\ a.file_id = None
               THEN EndOp(RaisedBefore(op, url, a, "ValueError", 0))
               ELSE IF a.file_input = None
               THEN EndOp(RaisedBefore(op, url, a, "TypeError", 0))
               ELSE IF ~CanOpen(a.file_input)
               THEN EndOp(RaisedBefore(op, url, a, "FileNotFoundError", 0))
               ELSE \E r \in FileResponses :
                      LET res == ProxyRequest(version, server_status, url, r)
                      IN  IF res.outcome # "ok"
                          THEN EndOp(RaisedInRequest(op, url, a, r, res, 1))
                          ELSE \E out \in OutPaths :
                                 LET sv == save_file(r, out, disk)
                                 IN  EndOp(Saved(op, url, a, r, res, sv, 1, 1,
                                                 IF sv.ok THEN "ok" ELSE "OSError"))

\* ImageOptions.image_file as a caller sets it
ImageFiles == {"extra.pdf", "missing.pdf"}

\* o, a call whose payload held k handles closed before client.request
WithClosedPayload(o, k) ==
    [f \in DOMAIN o \cup {"payload_closed"} |->
        IF f = "payload_closed" THEN k ELSE o[f]]

\* the transport is handed a payload with a closed handle: it raises when
\* it reads the handle, before anything is sent
ClosedHandle(res) ==
    [outcome |-> "ClosedFileError", sent |-> 0,
     version |-> res.version, server_status |-> res.server_status]

\* MiscApi.add_image: the image is opened in a with block that ends, and so
\* closes it, before client.request is called with it in files.  A transport
\* that reads the payload raises on the closed handle; one that does not
\* (the mocked client of the tests) answers.
add_image ==
    \E a \in Args, image_file \in ImageFiles :
        /\ constructed
        /\ calls < MaxOps
        /\ LET op == "add_image"
               url == "/api/v1/misc/add-image"
               n == IF a.file_input # None THEN 1 ELSE 0
           IN  IF a.file_input = None /\ a.file_id = None
               THEN EndOp(RaisedBefore(op, url, a, "ValueError", 0))
               ELSE IF a.file_input # None /\ ~CanOpen(a.file_input)
               THEN EndOp(RaisedBefore(op, url, a, "FileNotFoundError", 0))
               ELSE IF ~CanOpen(image_file)
               THEN EndOp(RaisedBefore(op, url, a, "FileNotFoundError", n))
               ELSE \E r \in FileResponses, reads \in BOOLEAN :
                      LET sent == ProxyRequest(version, server_status, url, r)
                          res == IF reads /\ sent.outcome # "ValueError"
                                 THEN ClosedHandle(sent) ELSE sent
                      IN  IF res.outcome # "ok"
                          THEN EndOp(WithClosedPayload(
                                   [RaisedInRequest(op, url, a, r, res, n + 1)
                                       EXCEPT !.closed = 1], 1))
                          ELSE \E out \in OutPaths :
                                 LET sv == save_file(r, out, disk)
                                 IN  EndOp(WithClosedPayload(
                                        Saved(op, url, a, r, res, sv,
                                              n + 1, n + 1,
                                              IF sv.ok THEN "ok" ELSE "OSError"),
                                        1))

\* httpx.Client.request as the earlier revision uses it (src/client.py): no
\* version guard, no validation of the status class
PlainRequest(r) ==
    IF r.kind = "error"
    THEN [outcome |-> "TransportError", sent |-> 1,
          version |-> version, server_status |-> server_status]
    ELSE [outcome |-> "ok", sent |-> 1,
          version |-> version, server_status |-> server_status]

\* ConvertApi.pdf_to_word of the earlier revision (src/convert.py): the
\* response goes to _save_file whatever its status, and the handle is closed
\* after that
legacy_pdf_to_word ==
    \E output_format \in {"doc", "odt"}, a \in Args :
        /\ calls < MaxOps
        /\ LET op == "legacy_pdf_to_word"
               url == "/api/v1/convert/pdf/word"
               n == IF a.file_input # None THEN 1 ELSE 0
           IN  IF output_format \notin {"doc", "docx"}
               THEN EndOp(RaisedBefore(op, url, a, "ValueError", 0))
               ELSE IF a.file_input = None /\ a.file_id = None
               THEN EndOp(RaisedBefore(op, url, a, "ValueError", 0))
               ELSE IF a.file_input # None /\ ~CanOpen(a.file_input)
               THEN EndOp(RaisedBefore(op, url, a, "FileNotFoundError", 0))
               ELSE \E r \in FileResponses :
                      LET res == PlainRequest(r)
                      IN  IF res.outcome # "ok"
                          THEN EndOp(RaisedInRequest(op, url, a, r, res, n))
                          ELSE \E out \in OutPaths :
                                 LET sv == save_file(r, out, disk)
                                 IN  IF sv.ok
                                     THEN EndOp(Saved(op, url, a, r, res, sv, n, n, "ok"))
                                     ELSE EndOp(Saved(op, url, a, r, res, sv, n, 0,
                                                      "OSError"))

NextOps ==
    \/ pdf_to_word
    \/ split_pdf_by_sections
    \/ filter_page_size
    \/ replace_invert_pdf
    \/ overlay_pdfs
    \/ merge_pdfs
    \/ add_stamp
    \/ extract_bookmarks
    \/ crop
    \/ rotate_page
    \/ advanced_pdf_conversion
    \/ pdf_to_xml
    \/ html_to_pdf
    \/ add_image
    \/ legacy_pdf_to_word

SpecOps == InitOps /\ [][NextOps]_vars

(***************************************************************************)
(* SpecMT: threads that share one wrapper.  Each writer thread runs        *)
(* ProxyClient.request for the status-check url; update_status is two      *)
(* assignments, and another thread may run between them.  A reader takes   *)
(* the two fields as they are at one moment.                               *)
(***************************************************************************)
NThreads == 2
MaxMTCalls == 3

Threads == 1..NThreads

InitMT ==
    /\ constructed = TRUE
    /\ \E b \in {c \in Bodies : Truthy(c.version)} :
          /\ version = InitFields(b).version
          /\ server_status = InitFields(b).server_status
          /\ observed = <<InitFields(b).version, InitFields(b).server_status>>
          /\ pairs = {<<b.version, b.status>>}
    /\ nreq = 1
    /\ calls = 0
    /\ last = NoCall
    /\ open_handles = 0
    /\ disk = InitDisk
    /\ pc = [t \in Threads |-> "idle"]
    /\ inflight = [t \in Threads |-> TransportError]
    /\ compared = NoCompare
    /\ named = NoName
    /\ saved = NoSave
    /\ clients = <<>>
    /\ facade = NoFacade

\* request(), up to super().request(...): the guard, then the request is on
\* the wire and r is what the transport will do with it
MTSend(t) ==
    /\ pc[t] = "idle"
    /\ calls < MaxMTCalls
    /\ calls' = calls + 1
    /\ IF Refuses(version)
       THEN UNCHANGED <<pc, inflight, nreq>>
       ELSE \E r \in Responses :
               /\ inflight' = [inflight EXCEPT ![t] = r]
               /\ pc' = [pc EXCEPT ![t] = "sent"]
               /\ nreq' = nreq + 1
    /\ UNCHANGED <<constructed, version, server_status, last, open_handles,
                   disk, observed, pairs, purevars>>

\* super().request returns or raises; validate_response; response.json();
\* update_status up to and including self.server_status = server_status
MTReceive(t) ==
    /\ pc[t] = "sent"
    /\ LET r == inflight[t]
       IN  IF r.kind = "error" \/ ~validate_response(r.code) \/ ~r.json
           THEN /\ pc' = [pc EXCEPT ![t] = "idle"]
                /\ UNCHANGED <<server_status, pairs>>
           ELSE /\ server_status' = r.status
                /\ pairs' = pairs \cup {<<r.version, r.status>>}
                /\ pc' = [pc EXCEPT ![t] = "assigned_status"]
    /\ UNCHANGED <<constructed, version, nreq, calls, last, open_handles,
                   disk, inflight, observed, purevars>>

\* update_status: self.version = version, and request() returns
MTAssignVersion(t) ==
    /\ pc[t] = "assigned_status"
    /\ version' = inflight[t].version
    /\ pc' = [pc EXCEPT ![t] = "idle"]
    /\ UNCHANGED <<constructed, server_status, nreq, calls, last,
                   open_handles, disk, inflight, observed, pairs, purevars>>

\* a reader thread reads client.version and client.server_status
MTRead ==
    /\ observed' = <<version, server_status>>
    /\ UNCHANGED <<constructed, version, server_status, nreq, calls, last,
                   open_handles, disk, pc, inflight, pairs, purevars>>

NextMT ==
    \/ \E t \in Threads : MTSend(t)
    \/ \E t \in Threads : MTReceive(t)
    \/ \E t \in Threads : MTAssignVersion(t)
    \/ MTRead

SpecMT == InitMT /\ [][NextMT]_vars

(***************************************************************************)
(* SpecCmp: compare_versions applied to two version strings.               *)
(***************************************************************************)
MaxParts == 3

\* the numbers the components of the generated versions are taken from
Components == {0, 2, 10}

\* further versions: a component of two digits beside one of one digit, a
\* trailing zero component, a higher first component before lower ones
ExampleParts ==
    { <<1, 3, 2>>, <<1, 3, 10>>, <<1, 3>>, <<1, 3, 0>>, <<2, 0>>, <<1, 9, 9>> }

PartSeqs ==
    UNION { [1..n -> Components] : n \in 1..MaxParts } \cup ExampleParts

\* the dotted string of a sequence of components
RECURSIVE Dotted(_)
Dotted(p) ==
    IF Len(p) = 1 THEN ToString(p[1])
    ELSE ToString(p[1]) \o "." \o Dotted(Tail(p))

\* the arguments of compare_versions: the text passed, the numbers of its
\* digit runs, and whether the text is dotted numeric
VersionInputs ==
    { [text |-> Dotted(p), parts |-> p, dotted |-> TRUE] : p \in PartSeqs }
    \cup { [text |-> "v1.3.2", parts |-> <<1, 3, 2>>, dotted |-> FALSE],
           [text |-> "1.3.2-rc10", parts |-> <<1, 3, 2, 10>>, dotted |-> FALSE],
           [text |-> "01.3", parts |-> <<1, 3>>, dotted |-> FALSE],
           [text |-> "", parts |-> <<>>, dotted |-> FALSE],
           [text |-> "unknown", parts |-> <<>>, dotted |-> FALSE],
           [text |-> "..", parts |-> <<>>, dotted |-> FALSE],
           [text |-> None, parts |-> <<>>, dotted |-> FALSE] }

InitCmp ==
    /\ constructed = FALSE
    /\ version = None
    /\ server_status = None
    /\ nreq = 0
    /\ calls = 0
    /\ last = NoCall
    /\ open_handles = 0
    /\ disk = InitDisk
    /\ pc = <<>>
    /\ inflight = <<>>
    /\ observed = <<None, None>>
    /\ pairs = {}
    /\ named = NoName
    /\ saved = NoSave
    /\ clients = <<>>
    /\ facade = NoFacade
    /\ \E a \in VersionInputs, b \in VersionInputs :
          compared = [done |-> FALSE, a |-> a, b |-> b, raised |-> FALSE,
                      r12 |-> 0, r21 |-> 0, r11 |-> 0]

\* compare_versions(a, b), compare_versions(b, a) and compare_versions(a, a)
Compare ==
    /\ ~compared.done
    /\ LET a == compared.a.text
           b == compared.b.text
       IN  compared' = [compared EXCEPT
                           !.done = TRUE,
                           !.raised = \/ CompareCall(a, b).raised
                                      \/ CompareCall(b, a).raised
                                      \/ CompareCall(a, a).raised,
                           !.r12 = CompareCall(a, b).value,
                           !.r21 = CompareCall(b, a).value,
                           !.r11 = CompareCall(a, a).value]
    /\ UNCHANGED <<constructed, version, server_status, nreq, calls, last,
                   open_handles, disk, mtvars, named, sidevars>>

NextCmp == Compare

SpecCmp == InitCmp /\ [][NextCmp]_vars

(***************************************************************************)
(* SpecName: get_filename applied to one Content-Disposition header.       *)
(***************************************************************************)
\* the pieces a server puts together into the header: the parameter name,
\* an optional quote, an optional charset prefix, the name, what follows
HeaderParams == {"filename=", "filename*=", "FILENAME=", "FileName*="}
HeaderQuotes == {"", "\""}
CharsetPrefixes == {"", "UTF-8''", "utf-8''", "Utf-8''"}
HeaderNames ==
    { "r.pdf", "a/b:c.pdf", "a%2Fb%3Ac.pdf", "x<y>z.pdf", "q?*|.pdf",
      "b\\s\"t.pdf", "%2e%2e", "a%3Cb%3E%7C%3F%2A%5C%22.pdf" }
HeaderTrailers == {"", "; size=3"}

\* the responses get_filename is called with: the header, and the pieces it
\* was put together from (derived: the header carries a filename parameter)
NameInputs ==
    { [header |-> "attachment; " \o p \o q \o c \o n \o q \o t,
       prefix |-> c, name |-> n, derived |-> TRUE] :
          p \in HeaderParams, q \in HeaderQuotes, c \in CharsetPrefixes,
          n \in HeaderNames, t \in HeaderTrailers }
    \cup { [header |-> h, prefix |-> "", name |-> "", derived |-> FALSE] :
             h \in {"", "attachment", "inline; name=x.pdf"} }

InitName ==
    /\ constructed = FALSE
    /\ version = None
    /\ server_status = None
    /\ nreq = 0
    /\ calls = 0
    /\ last = NoCall
    /\ open_handles = 0
    /\ disk = InitDisk
    /\ pc = <<>>
    /\ inflight = <<>>
    /\ observed = <<None, None>>
    /\ pairs = {}
    /\ compared = NoCompare
    /\ saved = NoSave
    /\ clients = <<>>
    /\ facade = NoFacade
    /\ \E i \in NameInputs :
          named = [done |-> FALSE, input |-> i, result |-> ""]

\* get_filename(resp)
DeriveName ==
    /\ ~named.done
    /\ named' = [named EXCEPT !.done = TRUE,
                              !.result = get_filename(named.input.header)]
    /\ UNCHANGED <<constructed, version, server_status, nreq, calls, last,
                   open_handles, disk, mtvars, compared, sidevars>>

NextName == DeriveName

SpecName == InitName /\ [][NextName]_vars

(***************************************************************************)
(* SpecSave: save_file applied to a response and an output path.           *)
(***************************************************************************)
MaxSaves == 2

\* a path in the output directory that names nothing yet
OutNew == <<"out", "new.bin">>

SavePaths == {OutFile, OutDir, OutSub, OutNew, OutMissing}

\* the responses handed to save_file: the header and the body
SaveResponses ==
    { FileResponse(200, cd, content) : cd \in Headers, content \in {"pdf", ""} }

InitSave ==
    /\ constructed = FALSE
    /\ version = None
    /\ server_status = None
    /\ nreq = 0
    /\ calls = 0
    /\ last = NoCall
    /\ open_handles = 0
    /\ disk = InitDisk
    /\ pc = <<>>
    /\ inflight = <<>>
    /\ observed = <<None, None>>
    /\ pairs = {}
    /\ compared = NoCompare
    /\ named = NoName
    /\ saved = NoSave
    /\ clients = <<>>
    /\ facade = NoFacade

\* one call save_file(resp=r, out_path=out)
SaveFile ==
    \E r \in SaveResponses, out \in SavePaths :
        /\ calls < MaxSaves
        /\ LET sv == save_file(r, out, disk)
           IN  /\ disk' = sv.disk
               /\ saved' = [done |-> TRUE, out_path |-> out, cd |-> r.cd,
                            content |-> r.content, ok |-> sv.ok,
                            returned |-> sv.target, pre_disk |-> disk]
        /\ calls' = calls + 1
        /\ UNCHANGED <<constructed, version, server_status, nreq, last,
                       open_handles, mtvars, compared, named, clients, facade>>

NextSave == SaveFile

SpecSave == InitSave /\ [][NextSave]_vars

(***************************************************************************)
(* SpecMod: the facade and the client its modules hold.                    *)
(***************************************************************************)
MaxModCalls == 4

\* the base_url values a caller passes
BaseUrls == {"http://localhost:8080", "http://pdf.example"}

\* a ProxyClient after __init__ on the bootstrap body r
NewClient(base_url, r) ==
    [base_url |-> base_url, version |-> InitFields(r).version,
     server_status |-> InitFields(r).server_status]

\* a facade that makes a ProxyClient of its own for every module
FacadeInit_ClientPerModule(cs, base_url, r) ==
    LET order == <<"info", "convert", "security", "misc", "general", "filter">>
    IN  [clients |-> cs \o [i \in 1..6 |-> NewClient(base_url, r)],
         facade |-> [base_url |-> base_url,
                     modules |-> [m \in Modules |->
                         Len(cs) + (CHOOSE i \in 1..6 : order[i] = m)]]]

\* StirlingPDFClient.__init__: one ProxyClient(base_url=base_url), kept as
\* self.__client and passed to each of the six module constructors
FacadeInit(cs, base_url, r) ==
    [clients |-> Append(cs, NewClient(base_url, r)),
     facade |-> [base_url |-> base_url,
                 modules |-> [m \in Modules |-> Len(cs) + 1]]]

\* MixApi.get_client of module m: the attribute of m whose name holds
\* "client", which is the instance its constructor was given
get_client(m) == facade.modules[m]

InitMod ==
    /\ constructed = FALSE
    /\ version = None
    /\ server_status = None
    /\ nreq = 0
    /\ calls = 0
    /\ last = NoCall
    /\ open_handles = 0
    /\ disk = InitDisk
    /\ pc = <<>>
    /\ inflight = <<>>
    /\ observed = <<None, None>>
    /\ pairs = {}
    /\ compared = NoCompare
    /\ named = NoName
    /\ saved = NoSave
    /\ clients = <<>>
    /\ facade = NoFacade

\* StirlingPDFClient(base_url): the bootstrap status request of the one
\* ProxyClient; when it fails no facade exists.  pairs holds the pair of the
\* latest status body a client took in.
ConstructFacade ==
    \E base_url \in BaseUrls, r \in Responses :
        /\ ~constructed
        /\ calls < MaxModCalls
        /\ LET res == GetStatus(r)
               ok == res.outcome = "ok"
               made == FacadeInit(clients, base_url, r)
           IN  /\ constructed' = ok
               /\ clients' = IF ok THEN made.clients ELSE clients
               /\ facade' = IF ok THEN made.facade ELSE facade
               /\ pairs' = IF ok THEN {<<r.version, r.status>>} ELSE pairs
               /\ nreq' = nreq + res.sent
               /\ last' = [NoCall EXCEPT !.op = "init", !.url = StatusUrl,
                                         !.urlkw = StatusUrl, !.resp = r,
                                         !.outcome = res.outcome,
                                         !.sent = res.sent, !.entered = TRUE,
                                         !.pre_nreq = nreq]
        /\ calls' = calls + 1
        /\ UNCHANGED <<version, server_status, open_handles, disk, pc,
                       inflight, observed, compared, named, saved>>

\* InfoApi.get_status: a status request through the client info holds;
\* ProxyClient.request refreshes the fields of that instance
InfoGetStatus ==
    \E r \in Responses :
        /\ constructed
        /\ calls < MaxModCalls
        /\ LET c == get_client("info")
               res == ProxyRequest(clients[c].version,
                                   clients[c].server_status, StatusUrl, r)
           IN  /\ clients' = [clients EXCEPT
                                 ![c].version = res.version,
                                 ![c].server_status = res.server_status]
               /\ pairs' = IF res.outcome = "ok"
                            THEN {<<r.version, r.status>>} ELSE pairs
               /\ nreq' = nreq + res.sent
               /\ last' = [NoCall EXCEPT !.op = "get_status",
                                         !.url = StatusUrl,
                                         !.urlkw = StatusUrl, !.resp = r,
                                         !.outcome = res.outcome,
                                         !.sent = res.sent, !.entered = TRUE,
                                         !.pre_version = clients[c].version,
                                         !.pre_status =
                                             clients[c].server_status,
                                         !.pre_nreq = nreq]
        /\ calls' = calls + 1
        /\ UNCHANGED <<constructed, version, server_status, open_handles,
                       disk, pc, inflight, observed, compared, named,
                       saved, facade>>

\* requires_server_version.wrapper on an operation of module m: the version
\* it reads from self.get_client()
GateRead ==
    \E m \in Modules :
        /\ constructed
        /\ calls < MaxModCalls
        /\ observed' = <<m, GateServerVersion(clients[get_client(m)].version)>>
        /\ last' = [NoCall EXCEPT !.op = "gate", !.pre_nreq = nreq]
        /\ calls' = calls + 1
        /\ UNCHANGED <<constructed, version, server_status, nreq,
                       open_handles, disk, pc, inflight, pairs, compared,
                       named, saved, clients, facade>>

NextMod == ConstructFacade \/ InfoGetStatus \/ GateRead

SpecMod == InitMod /\ [][NextMod]_vars

(***************************************************************************)
(* Claims about the wrapper and the gate, checked under Spec.              *)
(***************************************************************************)
RequestOps == {"request_kw", "request_pos", "get_uptime", "get_status"}

\* C1: a call of the gated operation get_load (minimum 1.3.2) made while the
\* cached version compares lower than the minimum (e.g. 1.2.0) ends in a
\* capability error, the wrapped operation is not entered and no request is
\* issued; made while the cached version compares equal or higher (e.g.
\* 1.3.2, 1.4.0) the wrapped operation is entered.
C1_GateBlocksOlderServer ==
    last.op = "get_load" =>
        /\ compare_versions(last.pre_version, MinLoadVersion) < 0 =>
              /\ last.outcome = "CapabilityError"
              /\ ~last.entered
              /\ nreq = last.pre_nreq
        /\ compare_versions(last.pre_version, MinLoadVersion) >= 0 =>
              last.entered
        /\ last.pre_version = "1.2.0" => ~last.entered /\ nreq = last.pre_nreq
        /\ last.pre_version \in {"1.3.2", "1.4.0"} => last.entered

C1_Witness ==
    /\ last.op = "get_load"
    /\ last.pre_version = "1.2.0"
    /\ last.outcome = "CapabilityError"
    /\ nreq = last.pre_nreq

\* C2: once construction has succeeded the cached version is set (neither
\* None nor empty) in every reachable state.
C2_VersionSetAfterConstruction ==
    constructed => Truthy(version)

\* C3: after a request to the status-check path that completed with a 2xx
\* response, the cached version and health equal the version and status
\* members of that response, whether the url was passed as keyword or as
\* positional argument.
C3_StatusRequestRefreshes ==
    ( /\ last.op \in RequestOps
      /\ last.url = StatusUrl
      /\ last.resp.json
      /\ last.outcome = "ok" )
    => /\ version = last.resp.version
       /\ server_status = last.resp.status

\* C4: a request made while the cached version is unset (None or empty) is
\* refused with an error, nothing reaches the transport, and version and
\* health are left as they were.
C4_RefusesWhileVersionUnset ==
    ( /\ \/ last.op \in RequestOps
         \/ last.op = "get_load" /\ last.entered
      /\ ~Truthy(last.pre_version) )
    => /\ last.outcome = "ValueError"
       /\ nreq = last.pre_nreq
       /\ version = last.pre_version
       /\ server_status = last.pre_status

C4_Witness ==
    /\ last.op = "request_kw"
    /\ last.pre_version = ""
    /\ last.outcome = "ValueError"
    /\ nreq = last.pre_nreq

C6_AbsentVersionIsZero ==
    ( /\ last.op = "get_load"
      /\ last.pre_version = None )
    => /\ last.outcome = "CapabilityError"
       /\ ~last.entered


C13_GateIsTransparent ==
    ( /\ last.op = "get_load"
      /\ compare_versions(last.pre_version, MinLoadVersion) >= 0 )
    => LET func == get_load_func(last.pre_version, last.pre_status, last.resp)
       IN  /\ last.entered
           /\ last.outcome = func.outcome
           /\ last.sent = func.sent
           /\ nreq = last.pre_nreq + func.sent
           /\ version = func.version
           /\ server_status = func.server_status

\* the gate let a call through and the wrapped function raised
C13_Witness ==
    /\ last.op = "get_load"
    /\ last.entered
    /\ compare_versions(last.pre_version, MinLoadVersion) > 0
    /\ last.sent = 1
    /\ last.outcome = "StatusError"

\* C25: a request through the wrapper to a path other than the status
\* check leaves the cached version and health as they were, whether it
\* succeeds or fails; the pair differs from what it was before a call only
\* when that call was a status check (the one of the constructor included)
\* that succeeded.
C25_OnlyStatusCheckRefreshes ==
    /\ ( /\ last.op \in RequestOps \cup {"get_load"}
         /\ last.url # StatusUrl )
       => /\ version = last.pre_version
          /\ server_status = last.pre_status
    /\ (version # last.pre_version \/ server_status # last.pre_status)
       => /\ last.url = StatusUrl
          /\ last.outcome = "ok"

\* a request to the uptime path was answered 200 with a body that carries
\* another version and the cached version is the former one
C25_Witness ==
    /\ last.op = "get_uptime"
    /\ last.outcome = "ok"
    /\ last.resp.version = "1.4.0"
    /\ last.pre_version = "1.2.0"
    /\ version = "1.2.0"

\* C27: a status-check request that reached the transport and failed (the
\* transport raised, or the status of the answer is outside 200..299) leaves
\* the cached version and health as they were before the request.
C27_FailedStatusCheckKeepsPair ==
    ( /\ last.op \in RequestOps
      /\ last.url = StatusUrl
      /\ last.sent = 1
      /\ \/ last.resp.kind = "error"
         \/ last.resp.code \notin 200..299 )
    => /\ last.outcome \in {"TransportError", "StatusError"}
       /\ version = last.pre_version
       /\ server_status = last.pre_status

\* a status check answered 500 with a body that names another version
C27_Witness ==
    /\ last.op = "get_status"
    /\ last.sent = 1
    /\ last.resp.kind = "resp"
    /\ last.resp.code = 500
    /\ last.resp.version = "1.4.0"
    /\ last.pre_version = "1.3.2"
    /\ version = "1.3.2"
    /\ server_status = last.pre_status

\* C28: once the wrapper exists with the version unset (None or empty), every
\* later call, a status check included, is refused before it reaches the
\* transport (or stopped by the gate), so the version stays unset.
C28_UnsetIsAbsorbing ==
    [][ (constructed /\ ~Truthy(version))
        => /\ version' = version
           /\ server_status' = server_status
           /\ nreq' = nreq
           /\ last'.sent = 0
           /\ last'.outcome \in {"ValueError", "CapabilityError"} ]_vars

\* a status check was refused on a wrapper whose version a status answer
\* without version member had unset
C28_Witness ==
    /\ constructed
    /\ version = None
    /\ last.op = "get_status"
    /\ last.pre_version = None
    /\ last.outcome = "ValueError"
    /\ nreq = 2

(***************************************************************************)
(* Claims about the operation methods, checked under SpecOps.              *)
(***************************************************************************)
RequestFailed(r) == r.kind = "error" \/ r.code \notin 200..299

\* C7: an operation that saves its response writes nothing to the output
\* target when its request failed (the transport raised, or the status is
\* outside 2xx): the files are as they were before the call.
C7_NoFileWhenRequestFails ==
    ( /\ last.op # "none"
      /\ last.sent = 1
      /\ RequestFailed(last.resp) )
    => /\ last.wrote = NoPath
       /\ disk = last.pre_disk

\* C8: when an operation method has exited, on whatever path, every file
\* handle it opened is closed (stated here for the calls made while the
\* cached version is set, so that no exit is due to the wrapper's refusal).
C8_HandlesClosedOnExit ==
    Truthy(last.pre_version) => last.opened = last.closed

BothAlternatives ==
    { "pdf_to_word", "split_pdf_by_sections", "filter_page_size",
      "replace_invert_pdf", "overlay_pdfs", "add_stamp" }

\* C10: an operation method that accepts file_input and file_id, called with
\* both absent, raises a validation error before it opens a file and before
\* it issues a request.
C10_BothAbsentRejected ==
    ( /\ last.op \in BothAlternatives
      /\ last.file_input = None
      /\ last.file_id = None )
    => /\ last.outcome = "ValueError"
       /\ last.opened = 0
       /\ nreq = last.pre_nreq


\* the operations whose every argument is in the observation of the call
SingleInputOps ==
    { "pdf_to_word", "split_pdf_by_sections", "filter_page_size",
      "replace_invert_pdf", "rotate_page", "advanced_pdf_conversion", "crop",
      "extract_bookmarks" }

\* the arguments of the call c are what the signature of its method asks for:
\* one of the two alternatives is given, a given file can be read, and the
\* enumerated parameter has one of its literals
ParametersPass(c) ==
    /\ c.file_input # None \/ c.file_id # None
    /\ c.file_input = None \/ CanOpen(c.file_input)
    /\ c.op = "pdf_to_word" => c.literal \in WordFormats
    /\ c.op = "rotate_page" => c.literal \in Angles

\* C11: an operation method called with arguments that pass validation (on a
\* wrapper whose version is set) hands exactly one request to the transport;
\* when that request fails, the call ends with the error of the request and
\* nothing further is sent or written.
C11_ExactlyOneRequest ==
    ( /\ last.op \in SingleInputOps
      /\ Truthy(last.pre_version)
      /\ ParametersPass(last) )
    => /\ last.sent = 1
       /\ nreq = last.pre_nreq + 1
       /\ RequestFailed(last.resp)
            => /\ last.outcome \in {"TransportError", "StatusError"}
               /\ last.wrote = NoPath

\* the version the documentation of advanced_pdf_conversion asks for
MinAdvancedVersion == "2.0.0"

\* C14: advanced_pdf_conversion called (with arguments that pass its own
\* validation) while the cached version compares lower than 2.0.0 is rejected
\* by the version check and sends no request.
C14_AdvancedConversionGated ==
    ( /\ last.op = "advanced_pdf_conversion"
      /\ ParametersPass(last)
      /\ compare_versions(last.pre_version, MinAdvancedVersion) < 0 )
    => /\ last.outcome = "CapabilityError"
       /\ last.sent = 0
       /\ nreq = last.pre_nreq

\* the literals each operation allows for its enumerated parameter
AllowedLiterals(op) ==
    CASE op = "pdf_to_word" -> WordFormats
      [] op = "rotate_page" -> Angles
      [] op = "add_stamp" -> Positions

\* C15: a call that passes a value outside the enumerated set of its
\* parameter (output_format of pdf_to_word, angle of rotate_page, position of
\* add_stamp) fails in the method, before any file is opened and before any
\* request is sent.
C15_EnumeratedRejectedLocally ==
    ( /\ last.op \in {"pdf_to_word", "rotate_page", "add_stamp"}
      /\ last.literal \notin AllowedLiterals(last.op) )
    => /\ last.outcome \notin {"ok", "none"}
       /\ last.opened = 0
       /\ last.sent = 0
       /\ nreq = last.pre_nreq

\* the operations with the two alternatives whose other arguments are in
\* the observation of the call
AlternativeOps ==
    { "pdf_to_word", "split_pdf_by_sections", "filter_page_size",
      "replace_invert_pdf", "rotate_page", "advanced_pdf_conversion",
      "pdf_to_xml", "html_to_pdf" }

\* C26: an operation method that takes file_input or file_id, called with a
\* file_id and no file (its other arguments valid, the cached version set),
\* passes validation, opens no file and sends its one request, which
\* carries the file_id and no file; so for pdf_to_xml and html_to_pdf.
C26_FileIdAloneSuffices ==
    ( /\ last.op \in AlternativeOps
      /\ last.file_input = None
      /\ last.file_id # None
      /\ ParametersPass(last)
      /\ Truthy(last.pre_version) )
    => /\ last.opened = 0
       /\ last.sent = 1
       /\ nreq = last.pre_nreq + 1
       /\ last.wire_file_id = last.file_id
       /\ ~last.wire_file

\* C29: in every operation method no handle of the payload is closed before
\* the request that carries it is issued: when the method calls
\* client.request every handle it placed in files is open (stated for the
\* calls made while the cached version is set).
C29_OpenRequestClose ==
    Truthy(last.pre_version) => last.payload_closed = 0

(***************************************************************************)
(* Claims about the comparator, checked under SpecCmp.                     *)
(***************************************************************************)
\* p padded with zeros to length n
Pad(p, n) == [i \in 1..n |-> IF i <= Len(p) THEN p[i] ELSE 0]

\* the sign of the first pair that differs once both sequences are padded
\* with zeros to the longer length, 0 when none differs
PaddedSign(p, q) ==
    LET n == Max(Len(p), Len(q))
        D == { i \in 1..n : Pad(p, n)[i] # Pad(q, n)[i] }
    IN  IF D = {} THEN 0
        ELSE LET k == CHOOSE i \in D : \A j \in D : i <= j
             IN  IF Pad(p, n)[k] < Pad(q, n)[k] THEN -1 ELSE 1

\* C16: compare_versions(a, b) is the sign of the first differing component
\* after the two sequences of digit runs are padded with zeros to the same
\* length, 0 when all are equal; compare(1.3.2, 1.3.2) = 0,
\* compare(1.3.10, 1.3.2) = 1, compare(1.3, 1.3.0) = 0, compare(2.0, 1.9.9) = 1.
C16_PaddedComponentwise ==
    ( /\ compared.done
      /\ compared.a.text # None
      /\ compared.b.text # None )
    => /\ compared.r12 = PaddedSign(compared.a.parts, compared.b.parts)
       /\ (compared.a.text = "1.3.2" /\ compared.b.text = "1.3.2")
            => compared.r12 = 0
       /\ (compared.a.text = "1.3.10" /\ compared.b.text = "1.3.2")
            => compared.r12 = 1
       /\ (compared.a.text = "1.3" /\ compared.b.text = "1.3.0")
            => compared.r12 = 0
       /\ (compared.a.text = "2.0" /\ compared.b.text = "1.9.9")
            => compared.r12 = 1

\* 1.3.10 was compared with 1.3.2 and found greater
C16_Witness ==
    /\ compared.done
    /\ compared.a.text = "1.3.10"
    /\ compared.b.text = "1.3.2"
    /\ compared.r12 = 1

\* C17: for dotted numeric a and b, of whatever lengths,
\* compare_versions(a, b) = -compare_versions(b, a) and
\* compare_versions(a, a) = 0.
C17_Antisymmetric ==
    ( /\ compared.done
      /\ compared.a.dotted
      /\ compared.b.dotted )
    => /\ compared.r12 = 0 - compared.r21
       /\ compared.r11 = 0

\* two versions of different lengths were compared both ways, and differ
C17_Witness ==
    /\ compared.done
    /\ compared.a.dotted
    /\ compared.b.dotted
    /\ Len(compared.a.parts) < Len(compared.b.parts)
    /\ compared.r12 = 1
    /\ compared.r21 = -1

\* C18: compare_versions raises for no input, and returns 0 when one or both
\* inputs hold no digit (the empty string among them) or are no string.
C18_NeverRaisesEqualOnGarbage ==
    compared.done
    => /\ ~compared.raised
       /\ (compared.a.parts = <<>> \/ compared.b.parts = <<>>)
            => compared.r12 = 0

(***************************************************************************)
(* Claims about the derived filename, checked under SpecName.              *)
(***************************************************************************)
\* C19: a filename derived from a Content-Disposition header holds none of
\* the characters < > : " / \ | ? * ; each is replaced by an underscore, and
\* after the percent escapes are decoded, so that a/b:c.pdf and, with the
\* charset prefix, a%2Fb%3Ac.pdf both become a_b_c.pdf.
C19_NoIllegalCharacter ==
    (named.done /\ named.input.derived)
    => /\ \A i \in 1..Len(named.result) :
             At(named.result, i)
                 \notin {"<", ">", ":", "\"", "/", "\\", "|", "?", "*"}
       /\ (named.input.prefix = "" /\ named.input.name = "a/b:c.pdf")
            => named.result = "a_b_c.pdf"
       /\ ( /\ named.input.prefix \in {"UTF-8''", "utf-8''"}
            /\ named.input.name = "a%2Fb%3Ac.pdf" )
            => named.result = "a_b_c.pdf"

\* a name with escaped separators was decoded and then cleaned
C19_Witness ==
    /\ named.done
    /\ named.input.prefix = "UTF-8''"
    /\ named.input.name = "a%2Fb%3Ac.pdf"
    /\ named.result = "a_b_c.pdf"

\* C20: when the value of the filename parameter begins with the charset
\* prefix UTF-8 followed by two single quotes, in whatever letter case, the
\* prefix is stripped: the returned name does not begin with it.
C20_PrefixStrippedAnyCase ==
    (named.done /\ named.input.derived /\ named.input.prefix # "")
    => ~MatchesIgnoreCase(named.result, 1, "utf-8''")

\* C21: for a response without Content-Disposition header, or with one that
\* carries no filename parameter, get_filename returns the default, and the
\* default of a call that passes none is the placeholder unknown_filename.
C21_DefaultPlaceholder ==
    (named.done /\ ~named.input.derived)
    => named.result = "unknown_filename"

ResolvedPath ==
    IF saved.out_path \in DOMAIN saved.pre_disk THEN saved.out_path
    ELSE joinpath(saved.out_path, FilenameOf[saved.cd])

\* C23: a save_file that succeeds returns the path of the one file it made
\* or overwrote; every other file is as before and no directory was made
\* (every file lies in a directory that exists); when the resolved path has
\* no parent directory or is a directory, the call fails and the files are
\* as before.
C23_OneFileNoDirectories ==
    saved.done
    => /\ saved.ok
            => /\ saved.returned \in DOMAIN disk
               /\ DOMAIN disk = DOMAIN saved.pre_disk \cup {saved.returned}
               /\ \A p \in DOMAIN saved.pre_disk :
                     p # saved.returned => disk[p] = saved.pre_disk[p]
       /\ ~saved.ok => disk = saved.pre_disk
       /\ \A p \in DOMAIN disk : SubSeq(p, 1, Len(p) - 1) \in Dirs
       /\ ( \/ SubSeq(ResolvedPath, 1, Len(ResolvedPath) - 1) \notin Dirs
            \/ ResolvedPath \in Dirs )
            => (~saved.ok /\ saved.returned = NoPath)

\* a save into a directory that does not exist failed and made nothing
C23_Witness ==
    /\ saved.done
    /\ saved.out_path = OutMissing
    /\ ~saved.ok
    /\ disk = saved.pre_disk

\* C30: with a directory as target, whatever Content-Disposition the server
\* sends, the derived name is not empty, not one dot, not two dots and holds
\* no separator, and the file is written as a direct child of the directory.
C30_DirectChildOfTarget ==
    (saved.done /\ saved.out_path \in Dirs)
    => /\ FilenameOf[saved.cd] \notin {"", ".", ".."}
       /\ \A i \in 1..Len(FilenameOf[saved.cd]) :
             At(FilenameOf[saved.cd], i) \notin {"/", "\\"}
       /\ saved.returned # NoPath
            => /\ Len(saved.returned) = Len(saved.out_path) + 1
               /\ SubSeq(saved.returned, 1, Len(saved.out_path))
                    = saved.out_path

(***************************************************************************)
(* Claim about the facade, checked under SpecMod.                          *)
(***************************************************************************)
\* C24: a constructed StirlingPDFClient has made exactly one transport
\* client, bound to the base_url it was given, and each of the six modules
\* holds that instance; the version a status check through info took in is
\* the version the capability gate reads for an operation of any module.
C24_OneSharedClient ==
    constructed
    => /\ Len(clients) = 1
       /\ facade.base_url \in BaseUrls
       /\ clients[1].base_url = facade.base_url
       /\ \A m \in Modules : get_client(m) = 1
       /\ \A m \in Modules :
             <<clients[get_client(m)].version,
               clients[get_client(m)].server_status>> \in pairs
       /\ last.op = "gate" => \E p \in pairs : observed[2] = p[1]

\* a status check through info replaced 1.2.0 by 1.4.0 and the client that
\* convert holds carries 1.4.0
C24_Witness ==
    /\ constructed
    /\ last.op = "get_status"
    /\ last.outcome = "ok"
    /\ last.pre_version = "1.2.0"
    /\ last.resp.version = "1.4.0"
    /\ clients[get_client("convert")].version = "1.4.0"

(***************************************************************************)
(* Claims about threads sharing one wrapper, checked under SpecMT.         *)
(***************************************************************************)
\* C9: every (version, health) pair a reader observes is the pair of one
\* status response or the pair set at construction, never the version of
\* one combined with the health of another.
C9_NoTornPair ==
    observed \in pairs

====
